---- MODULE Spec2Model ----
(***************************************************************************)
(* Model of torchgeo/datasets/sen12ms.py: the SEN12MS dataset adapter.     *)
(*                                                                         *)
(* Encoding of strings.  Every file name and sample identifier of the      *)
(* dataset is a text made of fields joined by "_".  A name is modelled as  *)
(* the sequence of its fields, so that str.split("_") is the identity on   *)
(* the sequence and the format "{0}_{1}" of the parts is the two-field     *)
(* sequence <<parts[1], parts[2]>>.  The empty text is <<"">>, one empty   *)
(* field, as "".split("_") is [""].                                        *)
(* A path is the sequence of its components, as os.path.join builds it.    *)
(***************************************************************************)
EXTENDS Integers, Sequences, FiniteSets, TLC

VARIABLES
    root,     \* the directory tree under the root directory (read only)
    ds,       \* the SEN12MS instances, by the variable that holds them
    frame,    \* the activation of __getitem__ in progress, if any
    handles,  \* the raster files open at this moment
    io,       \* the file operations of the current (or last) call, in order
    result,   \* what the last completed call returned or raised
    concat    \* the dataset built by the last a + b, if any

vars == <<root, ds, frame, handles, io, result, concat>>

-----------------------------------------------------------------------------
(* Bounds of the model *)

MaxLines == 2    \* lines of a split list file
MaxBands == 2    \* entries of an enumerated band list
MaxFaults == 1   \* entries of the root directory that are missing or altered

-----------------------------------------------------------------------------
(* Class attributes *)

BAND_SETS ==
    [all |-> <<0, 1, 2, 3, 4, 5, 6, 7, 8, 9, 10, 11, 12, 13, 14>>,
     s1 |-> <<0, 1>>,
     s2_all |-> <<2, 3, 4, 5, 6, 7, 8, 9, 10, 11, 12, 13, 14>>,
     s2_reduced |-> <<3, 4, 5, 9, 12, 13>>]

filenames ==
    << <<"ROIs1158", "spring", "lc.tar.gz">>,
       <<"ROIs1158", "spring", "s1.tar.gz">>,
       <<"ROIs1158", "spring", "s2.tar.gz">>,
       <<"ROIs1868", "summer", "lc.tar.gz">>,
       <<"ROIs1868", "summer", "s1.tar.gz">>,
       <<"ROIs1868", "summer", "s2.tar.gz">>,
       <<"ROIs1970", "fall", "lc.tar.gz">>,
       <<"ROIs1970", "fall", "s1.tar.gz">>,
       <<"ROIs1970", "fall", "s2.tar.gz">>,
       <<"ROIs2017", "winter", "lc.tar.gz">>,
       <<"ROIs2017", "winter", "s1.tar.gz">>,
       <<"ROIs2017", "winter", "s2.tar.gz">>,
       <<"train", "list.txt">>,
       <<"test", "list.txt">> >>

light_filenames ==
    << <<"ROIs1158", "spring">>,
       <<"ROIs1868", "summer">>,
       <<"ROIs1970", "fall">>,
       <<"ROIs2017", "winter">>,
       <<"train", "list.txt">>,
       <<"test", "list.txt">> >>

md5s ==
    << "6e2e8fa8b8cba77ddab49fd20ff5c37b",
       "fba019bb27a08c1db96b31f718c34d79",
       "d58af2c15a16f376eb3308dc9b685af2",
       "2c5bd80244440b6f9d54957c6b1f23d4",
       "01044b7f58d33570c6b57fec28a3d449",
       "4dbaf72ecb704a4794036fe691427ff3",
       "9b126a68b0e3af260071b3139cb57cee",
       "19132e0aab9d4d6862fd42e8e6760847",
       "b8f117818878da86b5f5e06400eb1866",
       "0fa0420ef7bcfe4387c7e6fe226dc728",
       "bb8cbfc16b95a4f054a3d5380e0130ed",
       "3807545661288dcca312c9c538537b63",
       "0a68d4e1eb24f128fccdb930000b2546",
       "c7faad064001e646445c4c634169484d" >>

\* The channels of the rasters of one patch, by source (class docstring).
Channels == [lc |-> 4, s1 |-> 2, s2 |-> 13]

-----------------------------------------------------------------------------
(* The file system under the root directory, as the code observes it *)

\* os.path.join(self.root, name)
os_path_join(dir, name) == <<dir, name>>

\* os.path.exists(filepath): a file or a directory of that name is there.
os_path_exists(fs, filepath) ==
    filepath[1] = fs.dir /\ filepath[2] \in fs.exists

\* os.path.isfile(filepath): the archives and the lists are regular files,
\* the season directories are not.
os_path_isfile(fs, filepath) ==
    /\ os_path_exists(fs, filepath)
    /\ \E k \in 1..Len(filenames) : filenames[k] = filepath[2]

\* utils.check_integrity(filepath, md5): the file is there and, when an MD5
\* is given, the MD5 of its bytes is that one.  Returns the answer and the
\* file operations made.
check_integrity(fs, filepath, md5) ==
    IF ~os_path_isfile(fs, filepath)
    THEN [ok |-> FALSE, io |-> << <<"isfile", filepath>> >>]
    ELSE IF md5 = "None"
    THEN [ok |-> TRUE, io |-> << <<"isfile", filepath>> >>]
    ELSE [ok |-> fs.md5[filepath[2]] = md5,
          io |-> << <<"isfile", filepath>>, <<"md5", filepath>> >>]

-----------------------------------------------------------------------------
(* SEN12MS: integrity checks *)

RECURSIVE light_loop(_, _, _)
light_loop(fs, self, k) ==
    IF k > Len(light_filenames)
    THEN [ok |-> TRUE, io |-> <<>>]
    ELSE LET filepath == os_path_join(self.root, light_filenames[k])
             ev == << <<"exists", filepath>> >>
         IN IF ~os_path_exists(fs, filepath)
            THEN [ok |-> FALSE, io |-> ev]
            ELSE LET r == light_loop(fs, self, k + 1)
                 IN [ok |-> r.ok, io |-> ev \o r.io]

\* SEN12MS._check_integrity_light
_check_integrity_light(fs, self) == light_loop(fs, self, 1)

\* zip(self.filenames, self.md5s)
zip(a, b) ==
    [k \in 1..(IF Len(a) < Len(b) THEN Len(a) ELSE Len(b)) |-> <<a[k], b[k]>>]

RECURSIVE full_loop(_, _, _, _)
full_loop(fs, self, pairs, k) ==
    IF k > Len(pairs)
    THEN [ok |-> TRUE, io |-> <<>>]
    ELSE LET filepath == os_path_join(self.root, pairs[k][1])
             c == check_integrity(fs, filepath,
                                  IF self.checksum THEN pairs[k][2] ELSE "None")
         IN IF ~c.ok
            THEN [ok |-> FALSE, io |-> c.io]
            ELSE LET r == full_loop(fs, self, pairs, k + 1)
                 IN [ok |-> r.ok, io |-> c.io \o r.io]

\* Mutant of _check_integrity: the MD5s of the table are never compared.
_check_integrity_ignoring_md5(fs, self) ==
    full_loop(fs, [self EXCEPT !.checksum = FALSE], zip(filenames, md5s), 1)

\* SEN12MS._check_integrity
_check_integrity(fs, self) == full_loop(fs, self, zip(filenames, md5s), 1)

-----------------------------------------------------------------------------
(* SEN12MS: construction *)

\* An instance before __init__ has assigned anything: attrs is the set of the
\* attributes that are bound (the instance's __dict__).
NoObject ==
    [attrs |-> {}, root |-> "", split |-> "", bands |-> <<>>,
     transforms |-> "None", checksum |-> FALSE, ids |-> <<>>]

\* torch.tensor(bands).long(): the integers of the list, as given.
torch_tensor_long(bands) == [k \in 1..Len(bands) |-> bands[k]]

\* f.readlines(): the lines of the file, each with its line terminator.
readlines(fs, path) == fs.lists[path[2]]

\* line.rstrip(): the text of the line without its trailing white space.
rstrip(line) == line.text

\* self.root = root ... self.checksum = checksum
assign_attributes(rootdir, split, bands, transforms, checksum) ==
    [NoObject EXCEPT
        !.attrs = {"root", "split", "bands", "transforms", "checksum"},
        !.root = rootdir, !.split = split,
        !.bands = torch_tensor_long(bands),
        !.transforms = transforms, !.checksum = checksum]

\* The integrity check the checksum flag selects.
integrity_gate(fs, self, checksum) ==
    IF checksum THEN _check_integrity(fs, self)
                ELSE _check_integrity_light(fs, self)

\* with open(os.path.join(self.root, split + "_list.txt")) as f:
\*     self.ids = [line.rstrip() for line in f.readlines()]
read_ids(fs, self, split) ==
    LET path == os_path_join(self.root, <<split, "list.txt">>)
    IN IF ~os_path_exists(fs, path)
       THEN [self |-> self, raised |-> "FileNotFoundError", msg |-> "",
             io |-> << <<"open_failed", path>> >>]
       ELSE LET lines == readlines(fs, path)
            IN [self |-> [self EXCEPT
                            !.attrs = @ \cup {"ids"},
                            !.ids = [k \in 1..Len(lines) |-> rstrip(lines[k])]],
                raised |-> "None", msg |-> "",
                io |-> << <<"open", path>>, <<"readlines", path>>,
                          <<"close", path>> >>]

\* Mutant of __init__: the split list is read before the integrity check.
__init___reads_list_first(fs, rootdir, split, bands, transforms, checksum) ==
    IF split \notin {"train", "test"}
    THEN [self |-> NoObject, raised |-> "AssertionError", msg |-> "", io |-> <<>>]
    ELSE
    LET self == assign_attributes(rootdir, split, bands, transforms, checksum)
        r == read_ids(fs, self, split)
        chk == integrity_gate(fs, self, checksum)
    IN IF r.raised /= "None" THEN r
       ELSE IF ~chk.ok
       THEN [self |-> r.self, raised |-> "RuntimeError",
             msg |-> "Dataset not found or corrupted.", io |-> r.io \o chk.io]
       ELSE [r EXCEPT !.io = @ \o chk.io]

\* Mutant of __init__: the split is not asserted.
__init___without_assert(fs, rootdir, split, bands, transforms, checksum) ==
    LET self == assign_attributes(rootdir, split, bands, transforms, checksum)
        chk == integrity_gate(fs, self, checksum)
    IN IF ~chk.ok
       THEN [self |-> self, raised |-> "RuntimeError",
             msg |-> "Dataset not found or corrupted.", io |-> chk.io]
       ELSE LET r == read_ids(fs, self, split)
            IN [r EXCEPT !.io = chk.io \o @]

\* SEN12MS.__init__: the instance as far as it got, what was raised, and the
\* file operations made, in order.
__init__(fs, rootdir, split, bands, transforms, checksum) ==
    IF split \notin {"train", "test"}
    THEN [self |-> NoObject, raised |-> "AssertionError", msg |-> "", io |-> <<>>]
    ELSE
    LET self == assign_attributes(rootdir, split, bands, transforms, checksum)
        chk == integrity_gate(fs, self, checksum)
    IN IF ~chk.ok
       THEN [self |-> self, raised |-> "RuntimeError",
             msg |-> "Dataset not found or corrupted.", io |-> chk.io]
       ELSE LET r == read_ids(fs, self, split)
            IN [r EXCEPT !.io = chk.io \o @]

\* Mutant of __len__: the last index is returned, not the count.
__len___last_index(self) == Len(self.ids) - 1

\* SEN12MS.__len__
__len__(self) == Len(self.ids)

-----------------------------------------------------------------------------
(* SEN12MS: loading a sample *)

\* Mutant of raster_path: parts[2] keeps the identifier's own source tag.
raster_path_keep_source(self, filename, source) ==
    LET parts == filename
    IN IF Len(parts) < 5
       THEN [raised |-> "IndexError", path |-> <<>>]
       ELSE [raised |-> "None",
             path |-> <<self.root,
                        <<parts[1], parts[2]>>,
                        <<parts[3], parts[4]>>,
                        <<parts[1], parts[2], parts[3], parts[4], parts[5]>> >>]

\* The path _load_raster opens for an identifier and a source, or the
\* IndexError of an identifier with too few fields: parts[2] = source needs
\* three fields, the last format needs five.
raster_path(self, filename, source) ==
    LET parts0 == filename
    IN IF Len(parts0) < 3
       THEN [raised |-> "IndexError", path |-> <<>>]
       ELSE LET parts == [parts0 EXCEPT ![3] = source]
            IN IF Len(parts) < 5
               THEN [raised |-> "IndexError", path |-> <<>>]
               ELSE [raised |-> "None",
                     path |-> <<self.root,
                                <<parts[1], parts[2]>>,
                                <<parts[3], parts[4]>>,
                                <<parts[1], parts[2], parts[3], parts[4], parts[5]>> >>]

\* rasterio.open(path) finds the file.
raster_exists(fs, path) ==
    /\ path[1] = fs.dir
    /\ path[2] \in fs.exists
    /\ <<path[2], path[3], path[4]>> \in fs.rasters

\* f.read().astype(np.int32) as a tensor: the channels of the file, in the
\* file's order; a channel is named by its file and its position.
raster_read(path, source) ==
    [c \in 1..Channels[source] |-> <<path[4], c>>]

\* torch.cat(tensors=[s1, s2], dim=0)
torch_cat(s1, s2) == s1 \o s2

\* torch.index_select(image, dim=0, index): raises on an index outside
\* [0, channels); negative indices are not accepted.
torch_index_select(image, index) ==
    IF \E k \in 1..Len(index) : index[k] < 0 \/ index[k] >= Len(image)
    THEN [raised |-> "IndexError", value |-> <<>>]
    ELSE [raised |-> "None",
          value |-> [k \in 1..Len(index) |-> image[index[k] + 1]]]

\* nn.Identity()(sample), the transform the tests pass.
nn_Identity(sample) == sample

\* if self.transforms is not None: sample = self.transforms(sample)
apply_transforms(transforms, sample) ==
    IF transforms /= "None" THEN nn_Identity(sample) ELSE sample

\* Mutant of make_sample: the stack is built Sentinel-2 first.
make_sample_s2_first(self, lc, s1, s2) ==
    LET image == torch_cat(s2, s1)
        sel == torch_index_select(image, self.bands)
    IN IF sel.raised /= "None"
       THEN [raised |-> sel.raised, value |-> [image |-> <<>>, mask |-> <<>>]]
       ELSE [raised |-> "None",
             value |-> apply_transforms(self.transforms,
                                        [image |-> sel.value, mask |-> lc])]

\* The tail of __getitem__ once the three rasters are loaded.
make_sample(self, lc, s1, s2) ==
    LET image == torch_cat(s1, s2)
        sel == torch_index_select(image, self.bands)
    IN IF sel.raised /= "None"
       THEN [raised |-> sel.raised, value |-> [image |-> <<>>, mask |-> <<>>]]
       ELSE [raised |-> "None",
             value |-> apply_transforms(self.transforms,
                                        [image |-> sel.value, mask |-> lc])]

-----------------------------------------------------------------------------
(* torch.utils.data: a + b *)

RECURSIVE cumsum(_, _, _)
cumsum(sequence, k, s) ==
    IF k > Len(sequence) THEN <<>>
    ELSE LET l == __len__(sequence[k])
         IN <<l + s>> \o cumsum(sequence, k + 1, s + l)

\* ConcatDataset(datasets)
ConcatDataset(datasets) ==
    [datasets |-> datasets, cumulative_sizes |-> cumsum(datasets, 1, 0)]

\* ConcatDataset.__len__
ConcatDataset_len(c) == c.cumulative_sizes[Len(c.cumulative_sizes)]

NoConcat == [datasets |-> <<>>, cumulative_sizes |-> <<>>]

-----------------------------------------------------------------------------
(* The calls a program makes, one action per call or step *)

RootDir == "data"
Sources == <<"lc", "s1", "s2">>

NoArgs ==
    [split |-> "", bands |-> <<>>, transforms |-> "None", checksum |-> FALSE,
     index |-> 0]
NoSample == [image |-> <<>>, mask |-> <<>>]
NoResult ==
    [call |-> "", var |-> "", args |-> NoArgs, raised |-> "None", msg |-> "",
     self |-> NoObject, len |-> 0, sample |-> NoSample]
NoFrame ==
    [active |-> FALSE, filename |-> <<>>, pc |-> "", step |-> "", f |-> <<>>,
     lc |-> <<>>, s1 |-> <<>>, s2 |-> <<>>]

Constructed(d) == "ids" \in ds[d].attrs

\* d = SEN12MS(root, split, bands, transforms, checksum)
Construct(d, split, bands, transforms, checksum) ==
    /\ ~frame.active
    /\ LET r == __init__(root, RootDir, split, bands, transforms, checksum)
       IN /\ ds' = [ds EXCEPT ![d] = IF r.raised = "None" THEN r.self ELSE @]
          /\ io' = r.io
          /\ result' = [NoResult EXCEPT
                          !.call = "__init__", !.var = d,
                          !.args = [NoArgs EXCEPT !.split = split, !.bands = bands,
                                       !.transforms = transforms,
                                       !.checksum = checksum],
                          !.raised = r.raised, !.msg = r.msg, !.self = r.self]
    /\ UNCHANGED <<root, frame, handles, concat>>

\* len(d)
LenCall(d) ==
    /\ ~frame.active
    /\ Constructed(d)
    /\ result' = [NoResult EXCEPT !.call = "__len__", !.var = d,
                                  !.len = __len__(ds[d])]
    /\ io' = <<>>
    /\ UNCHANGED <<root, ds, frame, handles, concat>>

\* Mutant of GetItemCall: the identifier is popped from ids, not read.
GetItemCall_pop(d, index) ==
    /\ ~frame.active
    /\ Constructed(d)
    /\ LET n == Len(ds[d].ids)
           at == (IF index < 0 THEN n + index ELSE index) + 1
           call == [NoResult EXCEPT !.call = "__getitem__", !.var = d,
                                    !.args = [NoArgs EXCEPT !.index = index]]
       IN IF index < -n \/ index >= n
          THEN /\ result' = [call EXCEPT !.raised = "IndexError"]
               /\ frame' = NoFrame
               /\ ds' = ds
          ELSE /\ result' = [call EXCEPT !.raised = "Running"]
               /\ frame' = [NoFrame EXCEPT !.active = TRUE,
                                           !.filename = ds[d].ids[at],
                                           !.pc = "lc", !.step = "open"]
               /\ ds' = [ds EXCEPT ![d].ids =
                           [k \in 1..(n - 1) |-> IF k < at THEN @[k] ELSE @[k + 1]]]
    /\ io' = <<>>
    /\ UNCHANGED <<root, handles, concat>>

\* d[index], up to filename = self.ids[index]: a list accepts the indices
\* -len .. len - 1 and raises IndexError on the others.
GetItemCall(d, index) ==
    /\ ~frame.active
    /\ Constructed(d)
    /\ LET n == Len(ds[d].ids)
           call == [NoResult EXCEPT !.call = "__getitem__", !.var = d,
                                    !.args = [NoArgs EXCEPT !.index = index]]
       IN IF index < -n \/ index >= n
          THEN /\ result' = [call EXCEPT !.raised = "IndexError"]
               /\ frame' = NoFrame
          ELSE /\ result' = [call EXCEPT !.raised = "Running"]
               /\ frame' = [NoFrame EXCEPT
                              !.active = TRUE,
                              !.filename = ds[d].ids[(IF index < 0 THEN n + index
                                                      ELSE index) + 1],
                              !.pc = "lc", !.step = "open"]
    /\ io' = <<>>
    /\ UNCHANGED <<root, ds, handles, concat>>

\* _load_raster up to the entry of its with block: the path is built and
\* rasterio.open is called.
LoadRasterOpen ==
    /\ frame.active
    /\ frame.pc \in {"lc", "s1", "s2"}
    /\ frame.step = "open"
    /\ LET rp == raster_path(ds[result.var], frame.filename, frame.pc)
       IN IF rp.raised /= "None"
          THEN /\ result' = [result EXCEPT !.raised = rp.raised]
               /\ frame' = NoFrame
               /\ UNCHANGED <<handles, io>>
          ELSE IF ~raster_exists(root, rp.path)
          THEN /\ result' = [result EXCEPT !.raised = "RasterioIOError"]
               /\ frame' = NoFrame
               /\ io' = Append(io, <<"open_failed", rp.path>>)
               /\ UNCHANGED handles
          ELSE /\ handles' = handles \cup {rp.path}
               /\ frame' = [frame EXCEPT !.step = "read", !.f = rp.path]
               /\ io' = Append(io, <<"open", rp.path>>)
               /\ UNCHANGED result
    /\ UNCHANGED <<root, ds, concat>>

NextSource(pc) == IF pc = "lc" THEN "s1" ELSE IF pc = "s1" THEN "s2" ELSE "cat"

\* Mutant of LoadRasterRead: the file is read and never closed.
LoadRasterRead_no_close ==
    /\ frame.active
    /\ frame.step = "read"
    /\ io' = Append(io, <<"read", frame.f>>)
    /\ IF <<frame.f[2], frame.f[3], frame.f[4]>> \in root.unreadable
       THEN /\ result' = [result EXCEPT !.raised = "RasterioIOError"]
            /\ frame' = NoFrame
       ELSE /\ frame' = [frame EXCEPT
                           ![frame.pc] = raster_read(frame.f, frame.pc),
                           !.pc = NextSource(frame.pc),
                           !.step = "open", !.f = <<>>]
            /\ UNCHANGED result
    /\ UNCHANGED <<root, ds, handles, concat>>

\* _load_raster: the body of the with block and its exit, which closes the
\* file whether the body returned or raised.
LoadRasterRead ==
    /\ frame.active
    /\ frame.step = "read"
    /\ handles' = handles \ {frame.f}
    /\ io' = io \o << <<"read", frame.f>>, <<"close", frame.f>> >>
    /\ IF <<frame.f[2], frame.f[3], frame.f[4]>> \in root.unreadable
       THEN /\ result' = [result EXCEPT !.raised = "RasterioIOError"]
            /\ frame' = NoFrame
       ELSE /\ frame' = [frame EXCEPT
                           ![frame.pc] = raster_read(frame.f, frame.pc),
                           !.pc = NextSource(frame.pc),
                           !.step = "open", !.f = <<>>]
            /\ UNCHANGED result
    /\ UNCHANGED <<root, ds, concat>>

\* __getitem__ from torch.cat to return.
GetItemReturn ==
    /\ frame.active
    /\ frame.pc = "cat"
    /\ LET r == make_sample(ds[result.var], frame.lc, frame.s1, frame.s2)
       IN result' = [result EXCEPT !.raised = r.raised, !.sample = r.value]
    /\ frame' = NoFrame
    /\ UNCHANGED <<root, ds, handles, io, concat>>

\* a + b
Add(a, b) ==
    /\ ~frame.active
    /\ Constructed(a)
    /\ Constructed(b)
    /\ concat' = ConcatDataset(<<ds[a], ds[b]>>)
    /\ result' = [NoResult EXCEPT !.call = "__add__", !.var = a]
    /\ io' = <<>>
    /\ UNCHANGED <<root, ds, frame, handles>>

-----------------------------------------------------------------------------
(* The root directories and the arguments the specifications range over *)

Seqs(S, n) == UNION {[1..k -> S] : k \in 0..n}

Range(f) == {f[k] : k \in DOMAIN f}

\* The subsets of S of at most n elements.
UpTo(S, n) == {Range(f) : f \in Seqs(S, n)}

FileNames == Range(filenames)
SeasonDirs == {light_filenames[k] : k \in 1..4}
AllNames == FileNames \cup SeasonDirs
TrainList == <<"train", "list.txt">>
TestList == <<"test", "list.txt">>

GoodId == <<"ROIs1158", "spring", "s2", "1", "p30.tif">>
OtherId == <<"ROIs1868", "summer", "s2", "17", "p5.tif">>
BlankLine == <<"">>
ShortId == <<"ROIs1158", "spring", "s2", "1">>
Lines == {GoodId, OtherId, BlankLine, ShortId}

\* A list file holding the given texts, one per line.
FileOf(texts) == [k \in 1..Len(texts) |-> [text |-> texts[k], eol |-> "\n"]]

\* The three rasters of a patch, relative to the root directory.
RasterOf(id, source) ==
    << <<id[1], id[2]>>, <<source, id[4]>>, <<id[1], id[2], source, id[4], id[5]>> >>
RastersOf(id) == {RasterOf(id, Sources[k]) : k \in 1..3}

\* The MD5 of the published file of that name.
PublishedMd5(name) == md5s[CHOOSE k \in 1..Len(filenames) : filenames[k] = name]

\* The MD5 of the published file listed after that one (a file saved under
\* another file's name).
NeighbourMd5(name) ==
    md5s[((CHOOSE k \in 1..Len(filenames) : filenames[k] = name) % Len(md5s)) + 1]

\* The MD5 of an empty file (a download that was cut short).
EmptyMd5 == "d41d8cd98f00b204e9800998ecf8427e"

\* A root holding the archives, the extracted season directories, the two
\* lists and every raster of the two patches.
CompleteRoot ==
    [dir |-> RootDir,
     exists |-> AllNames,
     md5 |-> [n \in FileNames |-> PublishedMd5(n)],
     lists |-> (TrainList :> FileOf(<<GoodId, OtherId>>)) @@
               (TestList :> FileOf(<<OtherId, GoodId, GoodId>>)),
     rasters |-> RastersOf(GoodId) \cup RastersOf(OtherId),
     unreadable |-> {}]

Quiet ==
    /\ ds = [d \in {"a", "b"} |-> NoObject]
    /\ frame = NoFrame
    /\ handles = {}
    /\ io = <<>>
    /\ result = NoResult
    /\ concat = NoConcat

Accessors ==
    \/ \E d \in {"a"} : LenCall(d)
    \/ \E d \in {"a"}, index \in -1..MaxLines : GetItemCall(d, index)
    \/ LoadRasterOpen
    \/ LoadRasterRead
    \/ GetItemReturn

(* Spec: the list files and the rasters vary. *)

Init ==
    /\ \E list \in {TrainList, TestList}, texts \in Seqs(Lines, MaxLines),
          kind \in {"absent", "unreadable"}, hit \in SUBSET RastersOf(OtherId) :
          /\ Cardinality(hit) <= 1
          /\ root = [CompleteRoot EXCEPT
                        !.lists[list] = FileOf(texts),
                        !.rasters = IF kind = "absent" THEN @ \ hit ELSE @,
                        !.unreadable = IF kind = "unreadable" THEN hit ELSE {}]
    /\ Quiet

Next ==
    \/ \E split \in {"train", "test", "val"},
          bands \in {BAND_SETS.all, <<0, 15>>} :
          Construct("a", split, bands, "None", FALSE)
    \/ Accessors

Spec == Init /\ [][Next]_vars

(* SpecBands: the band list and the transform vary. *)

BandValues == {0, 2, 14, 15}
BandLists == Seqs(BandValues, MaxBands) \cup Range(BAND_SETS)

InitBands == root = CompleteRoot /\ Quiet

NextBands ==
    \/ \E bands \in BandLists, transforms \in {"None", "Identity"} :
          Construct("a", "train", bands, transforms, FALSE)
    \/ Accessors

SpecBands == InitBands /\ [][NextBands]_vars

(* SpecIntegrity: what is under the root directory varies. *)

Profiles ==
    {AllNames,                                  \* archives kept after extraction
     SeasonDirs \cup {TrainList, TestList},     \* archives deleted
     FileNames}                                 \* archives not extracted

InitIntegrity ==
    /\ \E profile \in Profiles, faults \in UpTo(AllNames, MaxFaults),
          altered \in UpTo(FileNames, MaxFaults), other \in {TRUE, FALSE} :
          /\ altered \subseteq faults
          /\ faults \subseteq profile
          /\ altered = {} => other
          /\ root = [CompleteRoot EXCEPT
                        !.exists = profile \ (faults \ altered),
                        !.md5 = [n \in FileNames |->
                                   IF n \notin altered THEN PublishedMd5(n)
                                   ELSE IF other THEN EmptyMd5
                                   ELSE NeighbourMd5(n)]]
    /\ Quiet

NextIntegrity ==
    \/ \E split \in {"train", "test", "val"}, checksum \in BOOLEAN :
          Construct("a", split, BAND_SETS.all, "None", checksum)
    \/ Accessors

SpecIntegrity == InitIntegrity /\ [][NextIntegrity]_vars

(* SpecConcat: two datasets and their concatenation. *)

InitConcat ==
    /\ \E train \in Seqs({GoodId, BlankLine}, MaxLines),
          test \in Seqs({GoodId, BlankLine}, MaxLines) :
          root = [CompleteRoot EXCEPT !.lists[TrainList] = FileOf(train),
                                      !.lists[TestList] = FileOf(test)]
    /\ Quiet

NextConcat ==
    \/ \E d \in {"a", "b"}, split \in {"train", "test"} :
          Construct(d, split, BAND_SETS.all, "None", FALSE)
    \/ \E d \in {"a", "b"} : LenCall(d)
    \/ \E a \in {"a", "b"}, b \in {"a", "b"} : Add(a, b)

SpecConcat == InitConcat /\ [][NextConcat]_vars

-----------------------------------------------------------------------------
(* Properties *)

\* The instance the last call was made on, the position its index names in
\* ids and the identifier there.
Self == ds[result.var]
IndexInRange == result.args.index >= -Len(Self.ids) /\ result.args.index < Len(Self.ids)
Position ==
    (IF result.args.index < 0 THEN Len(Self.ids) + result.args.index
     ELSE result.args.index) + 1
Id == Self.ids[Position]
Returned(call) == result.call = call /\ result.raised = "None"
Finished(call) == result.call = call /\ result.raised /= "Running"

\* The list file a split names.
ListOf(split) == root.lists[<<split, "list.txt">>]

NonEmptyLines(file) == {k \in 1..Len(file) : file[k].text /= <<"">>}

\* C1: for the splits train and test and every content of the list file,
\* len(dataset) of a constructed dataset is the number of non-empty lines of
\* <root>/<split>_list.txt.
C1_LenIsNonEmptyLineCount ==
    Returned("__len__") =>
        result.len = Cardinality(NonEmptyLines(ListOf(Self.split)))

-----------------------------------------------------------------------------

\* The file of a patch for a source, and the stack the bands index: the 2
\* channels of the Sentinel-1 file, then the 13 of the Sentinel-2 file.
PatchFile(id, source) == <<id[1], id[2], source, id[4], id[5]>>
Stack(id) ==
    [j \in 0..14 |-> IF j < 2 THEN <<PatchFile(id, "s1"), j + 1>>
                              ELSE <<PatchFile(id, "s2"), j - 1>>]
InRange(S) == \A k \in 1..Len(S) : S[k] \in 0..14

\* C2: for every band list S with entries in [0, 15) and every valid index,
\* __getitem__ returns an image of |S| channels whose channel k is channel
\* S[k] of the Sentinel-1 + Sentinel-2 stack, in the order of S, and a mask
\* that is the whole land-cover raster.
C2_BandSubset ==
    (Finished("__getitem__") /\ IndexInRange /\ InRange(Self.bands)) =>
        /\ result.raised = "None"
        /\ Len(result.sample.image) = Len(Self.bands)
        /\ \A k \in 1..Len(Self.bands) :
              result.sample.image[k] = Stack(Id)[Self.bands[k]]
        /\ result.sample.mask = [c \in 1..4 |-> <<PatchFile(Id, "lc"), c>>]

C2_Witness ==
    /\ Returned("__getitem__")
    /\ Self.bands = <<14, 0>>
    /\ Self.transforms = "Identity"
    /\ result.sample.image = <<Stack(Id)[14], Stack(Id)[0]>>

-----------------------------------------------------------------------------

Unique(S) == \A j \in 1..Len(S), k \in 1..Len(S) : S[j] = S[k] => j = k

\* C3: a band list with an index outside [0, 15) or a duplicated index makes
\* construction raise a validation error before any file operation.
C3_InvalidBandsRaiseBeforeIO ==
    (result.call = "__init__"
        /\ ~(InRange(result.args.bands) /\ Unique(result.args.bands))) =>
        /\ result.raised \in {"AssertionError", "ValueError"}
        /\ io = <<>>

-----------------------------------------------------------------------------

ValidSplit == result.args.split \in {"train", "test"}
Events(ops) == {k \in 1..Len(io) : io[k][1] \in ops}

\* C4: when the integrity check the checksum flag selects returns False,
\* construction raises RuntimeError("Dataset not found or corrupted."), the
\* split list file is never opened and ids is never assigned.
C4_IntegrityFailureRaises ==
    (result.call = "__init__" /\ ValidSplit
        /\ ~integrity_gate(root, result.self, result.args.checksum).ok) =>
        /\ result.raised = "RuntimeError"
        /\ result.msg = "Dataset not found or corrupted."
        /\ "ids" \notin result.self.attrs
        /\ Events({"open", "open_failed", "readlines"}) = {}

C4_Witness ==
    /\ result.call = "__init__"
    /\ result.args.checksum
    /\ result.raised = "RuntimeError"
    /\ \E n \in FileNames : n \in root.exists /\ root.md5[n] /= PublishedMd5(n)

\* C5: a split other than train and test makes construction fail before any
\* integrity check or list read, whatever the root holds and whatever the
\* checksum flag is.
C5_InvalidSplitFailsFirst ==
    (result.call = "__init__" /\ ~ValidSplit) =>
        /\ result.raised = "AssertionError"
        /\ io = <<>>
        /\ "ids" \notin result.self.attrs

C5_Witness ==
    /\ result.call = "__init__"
    /\ result.args.split = "val"
    /\ result.args.checksum
    /\ result.raised = "AssertionError"
    /\ root.exists = AllNames

\* C6: with checksum=False construction makes existence checks only and
\* passes the integrity gate exactly when the six light_filenames exist;
\* with checksum=True it passes exactly when each of the 14 filenames exists
\* and has the MD5 at the same position of md5s.
C6_ChecksumOnlyOnRequest ==
    (result.call = "__init__" /\ ValidSplit) =>
        IF result.args.checksum
        THEN result.raised /= "RuntimeError" <=>
                \A k \in 1..14 : /\ filenames[k] \in root.exists
                                 /\ root.md5[filenames[k]] = md5s[k]
        ELSE /\ Events({"md5", "isfile"}) = {}
             /\ result.raised /= "RuntimeError" <=>
                   \A k \in 1..6 : light_filenames[k] \in root.exists

C6_Witness ==
    /\ Returned("__init__")
    /\ ~result.args.checksum
    /\ \E n \in FileNames : n \in root.exists /\ root.md5[n] /= PublishedMd5(n)

-----------------------------------------------------------------------------

-----------------------------------------------------------------------------

\* C8: no __getitem__ or __len__ call, failing ones included, changes the
\* dataset: ids, bands, root and split stay as construction left them (so
\* len(dataset) stays the same) and no sample is kept in the instance.
C8_ManifestImmutable == [][Accessors => ds' = ds]_vars

C8_Witness ==
    /\ Finished("__getitem__")
    /\ result.raised = "RasterioIOError"
    /\ Len(Self.ids) = MaxLines
    /\ Events({"close"}) /= {}

-----------------------------------------------------------------------------

Count(ops, n) == Cardinality({k \in 1..n : io[k][1] \in ops})
IsOpen(e) == e[1] = "open"

\* C9: during __getitem__ the rasters are opened lc, s1, s2, each closed
\* before the next is opened, so at most one handle is open at any moment;
\* when the call has returned or raised no handle is open; every returned
\* access has opened its three files itself.
C9_HandlesScoped ==
    /\ Cardinality(handles) <= 1
    /\ \A n \in 0..Len(io) : Count({"open"}, n) - Count({"close"}, n) \in {0, 1}
    /\ Cardinality(handles) = Count({"open"}, Len(io)) - Count({"close"}, Len(io))
    /\ ~frame.active => handles = {}
    /\ Returned("__getitem__") =>
          LET opened == SelectSeq(io, IsOpen)
          IN [k \in 1..Len(opened) |-> opened[k][2][3][1]] = <<"lc", "s1", "s2">>

C9_Witness ==
    /\ Finished("__getitem__")
    /\ result.raised = "RasterioIOError"
    /\ Count({"open"}, Len(io)) = 3
    /\ handles = {}

-----------------------------------------------------------------------------

IsAttempt(e) == e[1] \in {"open", "open_failed"}
Attempted == SelectSeq(io, IsAttempt)
ExpectedPath(id, t) ==
    <<Self.root, <<id[1], id[2]>>, <<t, id[4]>>, <<id[1], id[2], t, id[4], id[5]>> >>
AbsentOnDisk(id) == \E k \in 1..3 : RasterOf(id, Sources[k]) \notin root.rasters
IOErrors == {"RasterioIOError", "FileNotFoundError", "OSError"}

\* The paths opened for an identifier of five fields: <root>/f0_f1/t_f3/
\* f0_f1_t_f3_f4 for t = lc, s1, s2 in turn, all three when the access returns.
PathsFollowTemplate ==
    (result.call = "__getitem__" /\ IndexInRange /\ Len(Id) = 5) =>
        /\ Len(Attempted) <= 3
        /\ \A k \in 1..Len(Attempted) :
              Attempted[k][2] = ExpectedPath(Id, Sources[k])
        /\ result.raised = "None" => Len(Attempted) = 3

\* C10 as claimed: the template, and an identifier that is absent on disk or
\* has fewer than five fields fails the access with an I/O error.
C10_Original ==
    /\ PathsFollowTemplate
    /\ (Finished("__getitem__") /\ IndexInRange
           /\ (Len(Id) < 5 \/ AbsentOnDisk(Id))) =>
          result.raised \in IOErrors

\* C10 as amended: the template; an identifier of five fields that is absent
\* on disk fails the access with an I/O error; an identifier of fewer than
\* five fields fails it with an IndexError before any file is opened.
C10_PathTemplate ==
    /\ PathsFollowTemplate
    /\ (Finished("__getitem__") /\ IndexInRange) =>
          /\ (Len(Id) = 5 /\ AbsentOnDisk(Id)) => result.raised \in IOErrors
          /\ Len(Id) < 5 => (result.raised = "IndexError" /\ io = <<>>)

C10_Witness ==
    /\ Finished("__getitem__")
    /\ IndexInRange
    /\ Id = ShortId
    /\ result.raised = "IndexError"

-----------------------------------------------------------------------------

\* C11: the full integrity mode is at least as strict as the light mode:
\* whenever construction with checksum=True succeeds, construction with
\* checksum=False on the same root succeeds too, and the four extracted
\* season directories that __getitem__ reads exist.
C11_FullImpliesLight ==
    (Returned("__init__") /\ result.args.checksum) =>
        /\ __init__(root, RootDir, result.args.split, result.args.bands,
                    result.args.transforms, FALSE).raised = "None"
        /\ \A k \in 1..4 : light_filenames[k] \in root.exists

====
